---- MODULE Spec2Model ----
(***************************************************************************)
(* Block-level maintenance of the consensus set                            *)
(* (modules/consensus/maintenance.go): miner payouts become delayed        *)
(* siacoin outputs, delayed outputs whose maturity height is the block's   *)
(* height are moved to the siacoin output set, and file contracts whose    *)
(* window ends at the block's height without a proof pay their missed      *)
(* proof outputs.  Every change is recorded in the block node's diff logs. *)
(*                                                                         *)
(* A pass is applyMaintenance on one block node; its three phases are      *)
(* steps of their own.  Blocks are applied at consecutive heights from     *)
(* height 0, file contracts are formed between passes, and the block that  *)
(* was applied last can be rewound by reverting its diffs.  The two range  *)
(* loops over Go maps enumerate their keys in any order.                   *)
(***************************************************************************)
EXTENDS Integers, Sequences, FiniteSets, TLC

\* ------------------------------------------------------------------ bounds
\* Highest block height of the model; blocks have heights 0..MaxHeight.
MaxHeight == 3
\* Longest list of miner payouts of a block.
MaxPayouts == 1

\* types.MaturityDelay: blocks a delayed output waits before it matures.
MaturityDelay == 2

\* modules.DiffApply / modules.DiffRevert
DiffApply == "apply"
DiffRevert == "revert"

\* types.ProofMissed, the tag of a missed storage proof output identifier.
ProofMissed == "missed"

\* The errors of maintenance.go and the messages of its string panics.
NoPanic == "none"
errMissingFileContract == "storage proof submitted for non existing file contract"
errOutputAlreadyMature == "delayed siacoin output is already in the matured outputs set"
errPayoutsAlreadyPaid == "payouts are already in the consensus set"
errStorageProofTiming == "missed proof triggered for file contract that is not expiring"
panicNonEmptyMap == "deleting non-empty map"
panicContractMissed == "an expiring file contract was missed somehow"

\* The payout at position i of a block's list of miner payouts: the reward
\* of 100 to A first, then the two outputs in turn.
PayoutAt(i) ==
    IF i % 2 = 1 THEN [Value |-> 100, UnlockHash |-> "A"]
                 ELSE [Value |-> 50, UnlockHash |-> "B"]

\* The miner payout lists of the model: one list of every length up to
\* MaxPayouts.
MinerPayoutLists == { [i \in 1..k |-> PayoutAt(i)] : k \in 0..MaxPayouts }

\* The missed proof output lists of the model: none, or the payout of 50 to B.
MissedProofOutputLists == { <<>>, <<[Value |-> 50, UnlockHash |-> "B"]>> }

\* The orders in which a Go range statement may enumerate the keys S of a map.
Enumerations(S) ==
    { o \in [1..Cardinality(S) -> S] :
        \A i, j \in 1..Cardinality(S) : i # j => o[i] # o[j] }

\* ------------------------------------------------------------ Go map helpers
EmptyMap == [k \in {} |-> 0]
\* m[k] = v
MapPut(m, k, v) == [x \in DOMAIN m \cup {k} |-> IF x = k THEN v ELSE m[x]]
\* delete(m, k)
MapDelete(m, k) == [x \in DOMAIN m \ {k} |-> m[x]]
\* m[k] of a map of maps: the nil map when k is absent.
Bucket(dscos, h) == IF h \in DOMAIN dscos THEN dscos[h] ELSE EmptyMap

\* ------------------------------------------------------------------ state
VARIABLES
    cs,          \* the ConsensusSet: siacoinOutputs, delayedSiacoinOutputs, fileContracts
    bn,          \* the blockNode being applied: height, block.MinerPayouts, diff logs
    pc,          \* position of the caller: idle, one of the phases, done, reverted, aborted
    panic,       \* the panic that ended the pass, NoPanic when there is none
    pre,         \* the consensus set when the current pass started
    mid,         \* the consensus set and block node before the phase that ran last
    currentPath, \* the miner payouts of the blocks of the current path, by height
    pathDiffs,   \* the output diffs in the logs of those blocks, order left out
    DEBUG        \* build.DEBUG

vars == <<cs, bn, pc, panic, pre, mid, currentPath, pathDiffs, DEBUG>>

\* Height of the next block of the current path: the first block has height 0.
blockHeight == Len(currentPath)

\* ------------------------------------------------------------- identifiers
\* Block.MinerPayoutID(i): derived from the block and the payout's index.
\* A block is identified by its height on the current path; i counts from 0.
MinerPayoutID(b, i) == <<"miner", b.height, i>>

\* FileContractID.StorageProofOutputID(proofStatus, i)
StorageProofOutputID(fcid, proofStatus, i) == <<proofStatus, fcid, i>>

\* ------------------------------------------------------------ diff commits
\* commitSiacoinOutputDiff: apply or revert a siacoin output diff.
commitSiacoinOutputDiff(c, scod, dir) ==
    IF scod.Direction = dir
    THEN [c EXCEPT !.siacoinOutputs = MapPut(@, scod.ID, scod.SiacoinOutput)]
    ELSE [c EXCEPT !.siacoinOutputs = MapDelete(@, scod.ID)]

\* commitDelayedSiacoinOutputDiff: apply or revert a delayed output diff in
\* the bucket of its maturity height.
commitDelayedSiacoinOutputDiff(c, dscod, dir) ==
    LET h == dscod.MaturityHeight
        b == Bucket(c.delayedSiacoinOutputs, h)
    IN  IF dscod.Direction = dir
        THEN [c EXCEPT !.delayedSiacoinOutputs =
                  MapPut(@, h, MapPut(b, dscod.ID, dscod.SiacoinOutput))]
        ELSE IF h \in DOMAIN c.delayedSiacoinOutputs
             THEN [c EXCEPT !.delayedSiacoinOutputs =
                       MapPut(@, h, MapDelete(b, dscod.ID))]
             ELSE c

\* commitFileContractDiff: apply or revert a file contract diff.
commitFileContractDiff(c, fcd, dir) ==
    IF fcd.Direction = dir
    THEN [c EXCEPT !.fileContracts = MapPut(@, fcd.ID, fcd.FileContract)]
    ELSE [c EXCEPT !.fileContracts = MapDelete(@, fcd.ID)]

\* ------------------------------------------------------ applyMinerPayouts
\* Variant of the payout loop that also credits the payout to the siacoin
\* output set at once.
RECURSIVE applyMinerPayoutsFrom_credited(_, _)
applyMinerPayoutsFrom_credited(s, i) ==
    IF i > Len(s.bn.MinerPayouts) \/ s.panic # NoPanic THEN s
    ELSE
      LET payout == s.bn.MinerPayouts[i]
          mpid == MinerPayoutID(s.bn, i - 1)
          mh == s.bn.height + MaturityDelay
          dscod == [Direction |-> DiffApply, ID |-> mpid,
                    SiacoinOutput |-> payout, MaturityHeight |-> mh]
          scod == [Direction |-> DiffApply, ID |-> mpid, SiacoinOutput |-> payout]
      IN  applyMinerPayoutsFrom_credited(
                 [s EXCEPT
                    !.bn.delayedSiacoinOutputDiffs = Append(@, dscod),
                    !.cs = commitSiacoinOutputDiff(
                               commitDelayedSiacoinOutputDiff(@, dscod, DiffApply),
                               scod, DiffApply)],
                 i + 1)

\* Variant of the payout loop that forgets the maturity delay.
RECURSIVE applyMinerPayoutsFrom_noDelay(_, _)
applyMinerPayoutsFrom_noDelay(s, i) ==
    IF i > Len(s.bn.MinerPayouts) \/ s.panic # NoPanic THEN s
    ELSE
      LET payout == s.bn.MinerPayouts[i]
          mpid == MinerPayoutID(s.bn, i - 1)
          dscod == [Direction |-> DiffApply, ID |-> mpid,
                    SiacoinOutput |-> payout, MaturityHeight |-> s.bn.height]
      IN  applyMinerPayoutsFrom_noDelay(
                 [s EXCEPT
                    !.bn.delayedSiacoinOutputDiffs = Append(@, dscod),
                    !.cs = commitDelayedSiacoinOutputDiff(@, dscod, DiffApply)],
                 i + 1)

\* Variant of the payout loop whose sanity check looks at the delayed bucket
\* only, not at the siacoin output set.
RECURSIVE applyMinerPayoutsFrom_bucketOnly(_, _)
applyMinerPayoutsFrom_bucketOnly(s, i) ==
    IF i > Len(s.bn.MinerPayouts) \/ s.panic # NoPanic THEN s
    ELSE
      LET payout == s.bn.MinerPayouts[i]
          mpid == MinerPayoutID(s.bn, i - 1)
          mh == s.bn.height + MaturityDelay
          dscod == [Direction |-> DiffApply, ID |-> mpid,
                    SiacoinOutput |-> payout, MaturityHeight |-> mh]
      IN  IF DEBUG /\ mpid \in DOMAIN Bucket(s.cs.delayedSiacoinOutputs, mh)
          THEN [s EXCEPT !.panic = errPayoutsAlreadyPaid]
          ELSE applyMinerPayoutsFrom_bucketOnly(
                 [s EXCEPT
                    !.bn.delayedSiacoinOutputDiffs = Append(@, dscod),
                    !.cs = commitDelayedSiacoinOutputDiff(@, dscod, DiffApply)],
                 i + 1)

\* One iteration of the payout loop and the iterations after it; i counts
\* from 1 here, the identifier is derived from i-1 as in the code.
RECURSIVE applyMinerPayoutsFrom(_, _)
applyMinerPayoutsFrom(s, i) ==
    IF i > Len(s.bn.MinerPayouts) \/ s.panic # NoPanic THEN s
    ELSE
      LET payout == s.bn.MinerPayouts[i]
          mpid == MinerPayoutID(s.bn, i - 1)
          mh == s.bn.height + MaturityDelay
          dscod == [Direction |-> DiffApply, ID |-> mpid,
                    SiacoinOutput |-> payout, MaturityHeight |-> mh]
      IN  IF DEBUG /\ mpid \in DOMAIN Bucket(s.cs.delayedSiacoinOutputs, mh)
          THEN [s EXCEPT !.panic = errPayoutsAlreadyPaid]
          ELSE IF DEBUG /\ mpid \in DOMAIN s.cs.siacoinOutputs
          THEN [s EXCEPT !.panic = errPayoutsAlreadyPaid]
          ELSE applyMinerPayoutsFrom(
                 [s EXCEPT
                    !.bn.delayedSiacoinOutputDiffs = Append(@, dscod),
                    !.cs = commitDelayedSiacoinOutputDiff(@, dscod, DiffApply)],
                 i + 1)

applyMinerPayouts(s) == applyMinerPayoutsFrom(s, 1)

\* --------------------------------------------- applyMaturedSiacoinOutputs
\* Variant of the maturation loop that takes the output out of its bucket
\* without recording the Revert delayed output diff.
RECURSIVE applyMaturedLoop_unpaired(_, _, _)
applyMaturedLoop_unpaired(s, order, k) ==
    IF k > Len(order) \/ s.panic # NoPanic THEN s
    ELSE
      LET dscoid == order[k]
          dsco == Bucket(s.cs.delayedSiacoinOutputs, s.bn.height)[dscoid]
          scod == [Direction |-> DiffApply, ID |-> dscoid, SiacoinOutput |-> dsco]
          dscod == [Direction |-> DiffRevert, ID |-> dscoid,
                    SiacoinOutput |-> dsco, MaturityHeight |-> s.bn.height]
      IN  IF DEBUG /\ dscoid \in DOMAIN s.cs.siacoinOutputs
          THEN [s EXCEPT !.panic = errOutputAlreadyMature]
          ELSE applyMaturedLoop_unpaired(
                 [s EXCEPT
                    !.bn.siacoinOutputDiffs = Append(@, scod),
                    !.cs = commitDelayedSiacoinOutputDiff(
                               commitSiacoinOutputDiff(@, scod, DiffApply),
                               dscod, DiffApply)],
                 order, k + 1)

\* Variant of the maturation loop that has appended the siacoin output diff
\* before it finds the output mature already.
RECURSIVE applyMaturedLoop_recordFirst(_, _, _)
applyMaturedLoop_recordFirst(s, order, k) ==
    IF k > Len(order) \/ s.panic # NoPanic THEN s
    ELSE
      LET dscoid == order[k]
          dsco == Bucket(s.cs.delayedSiacoinOutputs, s.bn.height)[dscoid]
          scod == [Direction |-> DiffApply, ID |-> dscoid, SiacoinOutput |-> dsco]
          dscod == [Direction |-> DiffRevert, ID |-> dscoid,
                    SiacoinOutput |-> dsco, MaturityHeight |-> s.bn.height]
      IN  IF DEBUG /\ dscoid \in DOMAIN s.cs.siacoinOutputs
          THEN [s EXCEPT !.bn.siacoinOutputDiffs = Append(@, scod),
                         !.panic = errOutputAlreadyMature]
          ELSE applyMaturedLoop_recordFirst(
                 [s EXCEPT
                    !.bn.siacoinOutputDiffs = Append(@, scod),
                    !.bn.delayedSiacoinOutputDiffs = Append(@, dscod),
                    !.cs = commitDelayedSiacoinOutputDiff(
                               commitSiacoinOutputDiff(@, scod, DiffApply),
                               dscod, DiffApply)],
                 order, k + 1)

\* The range loop over delayedSiacoinOutputs[bn.height], which enumerates
\* the bucket's identifiers in the order `order`.
RECURSIVE applyMaturedLoop(_, _, _)
applyMaturedLoop(s, order, k) ==
    IF k > Len(order) \/ s.panic # NoPanic THEN s
    ELSE
      LET dscoid == order[k]
          dsco == Bucket(s.cs.delayedSiacoinOutputs, s.bn.height)[dscoid]
          scod == [Direction |-> DiffApply, ID |-> dscoid, SiacoinOutput |-> dsco]
          dscod == [Direction |-> DiffRevert, ID |-> dscoid,
                    SiacoinOutput |-> dsco, MaturityHeight |-> s.bn.height]
      IN  IF DEBUG /\ dscoid \in DOMAIN s.cs.siacoinOutputs
          THEN [s EXCEPT !.panic = errOutputAlreadyMature]
          ELSE applyMaturedLoop(
                 [s EXCEPT
                    !.bn.siacoinOutputDiffs = Append(@, scod),
                    !.bn.delayedSiacoinOutputDiffs = Append(@, dscod),
                    !.cs = commitDelayedSiacoinOutputDiff(
                               commitSiacoinOutputDiff(@, scod, DiffApply),
                               dscod, DiffApply)],
                 order, k + 1)

\* Variants of the guard that are off by one in either direction.
OldEnough_late(height) == height > MaturityDelay + 1
OldEnough_inclusive(height) == height >= MaturityDelay

\* The guard of the maturation step: the chain is old enough.
OldEnough(height) == height > MaturityDelay

\* Variant of the maturation step that leaves the emptied bucket in place.
applyMaturedSiacoinOutputs_noDelete(s, order) ==
    IF ~(s.bn.height > MaturityDelay) THEN s
    ELSE applyMaturedLoop(s, order, 1)

applyMaturedSiacoinOutputs(s, order) ==
    IF ~OldEnough(s.bn.height) THEN s
    ELSE
      LET t == applyMaturedLoop(s, order, 1)
      IN  IF t.panic # NoPanic THEN t
          ELSE IF DEBUG /\ DOMAIN Bucket(t.cs.delayedSiacoinOutputs, t.bn.height) # {}
          THEN [t EXCEPT !.panic = panicNonEmptyMap]
          ELSE [t EXCEPT !.cs.delayedSiacoinOutputs = MapDelete(@, t.bn.height)]

\* ------------------------------------------------ applyMissedStorageProof
\* The zero value of types.FileContract, read from the map for a missing key.
ZeroFileContract == [WindowEnd |-> 0, MissedProofOutputs |-> <<>>]

\* Variant of the loop over fc.MissedProofOutputs that derives the
\* identifiers from indices counted from 1.
RECURSIVE applyMissedOutputsFrom_index(_, _, _, _)
applyMissedOutputsFrom_index(s, fcid, fc, i) ==
    IF i > Len(fc.MissedProofOutputs) \/ s.panic # NoPanic THEN s
    ELSE
      LET mpo == fc.MissedProofOutputs[i]
          spoid == StorageProofOutputID(fcid, ProofMissed, i)
          mh == s.bn.height + MaturityDelay
          dscod == [Direction |-> DiffApply, ID |-> spoid,
                    SiacoinOutput |-> mpo, MaturityHeight |-> mh]
      IN  applyMissedOutputsFrom_index(
                 [s EXCEPT
                    !.bn.delayedSiacoinOutputDiffs = Append(@, dscod),
                    !.cs = commitDelayedSiacoinOutputDiff(@, dscod, DiffApply)],
                 fcid, fc, i + 1)

\* The loop over fc.MissedProofOutputs; i counts from 1, identifiers from 0.
RECURSIVE applyMissedOutputsFrom(_, _, _, _)
applyMissedOutputsFrom(s, fcid, fc, i) ==
    IF i > Len(fc.MissedProofOutputs) \/ s.panic # NoPanic THEN s
    ELSE
      LET mpo == fc.MissedProofOutputs[i]
          spoid == StorageProofOutputID(fcid, ProofMissed, i - 1)
          mh == s.bn.height + MaturityDelay
          dscod == [Direction |-> DiffApply, ID |-> spoid,
                    SiacoinOutput |-> mpo, MaturityHeight |-> mh]
      IN  IF DEBUG /\ spoid \in DOMAIN Bucket(s.cs.delayedSiacoinOutputs, mh)
          THEN [s EXCEPT !.panic = errPayoutsAlreadyPaid]
          ELSE IF DEBUG /\ spoid \in DOMAIN s.cs.siacoinOutputs
          THEN [s EXCEPT !.panic = errPayoutsAlreadyPaid]
          ELSE applyMissedOutputsFrom(
                 [s EXCEPT
                    !.bn.delayedSiacoinOutputDiffs = Append(@, dscod),
                    !.cs = commitDelayedSiacoinOutputDiff(@, dscod, DiffApply)],
                 fcid, fc, i + 1)

\* Variant of applyMissedStorageProof that removes the contract without
\* recording the file contract diff.
applyMissedStorageProof_unrecorded(s, fcid) ==
    LET fc == s.cs.fileContracts[fcid]
        t == applyMissedOutputsFrom(s, fcid, fc, 1)
    IN  [t EXCEPT !.cs.fileContracts = MapDelete(@, fcid)]

\* Variant of applyMissedStorageProof that records the file contract diff
\* and leaves the contract in the set.
applyMissedStorageProof_kept(s, fcid) ==
    LET fc == s.cs.fileContracts[fcid]
        t == applyMissedOutputsFrom(s, fcid, fc, 1)
    IN  [t EXCEPT !.bn.fileContractDiffs =
                      Append(@, [Direction |-> DiffRevert, ID |-> fcid,
                                 FileContract |-> fc])]

applyMissedStorageProof(s, fcid) ==
    LET exists == fcid \in DOMAIN s.cs.fileContracts
        fc == IF exists THEN s.cs.fileContracts[fcid] ELSE ZeroFileContract
    IN  IF DEBUG /\ ~exists
        THEN [s EXCEPT !.panic = errMissingFileContract]
        ELSE IF DEBUG /\ fc.WindowEnd # s.bn.height
        THEN [s EXCEPT !.panic = errStorageProofTiming]
        ELSE
          LET t == applyMissedOutputsFrom(s, fcid, fc, 1)
          IN  IF t.panic # NoPanic THEN t
              ELSE [t EXCEPT
                      !.cs.fileContracts = MapDelete(@, fcid),
                      !.bn.fileContractDiffs =
                          Append(@, [Direction |-> DiffRevert, ID |-> fcid,
                                     FileContract |-> fc])]

\* -------------------------------------------- applyFileContractMaintenance
\* Variant of the scan that stops at the first contract whose window ends at
\* the block's height.
RECURSIVE scanFileContracts_break(_, _, _, _)
scanFileContracts_break(s, order, k, r) ==
    IF k > Len(order) \/ r.panic # NoPanic \/ r.expired # <<>> THEN r
    ELSE
      LET id == order[k]
          fc == s.cs.fileContracts[id]
          expired == IF fc.WindowEnd = s.bn.height
                     THEN Append(r.expired, id) ELSE r.expired
      IN  IF DEBUG /\ fc.WindowEnd < s.bn.height
          THEN [expired |-> expired, panic |-> panicContractMissed]
          ELSE scanFileContracts_break(s, order, k + 1,
                                 [expired |-> expired, panic |-> NoPanic])

\* Variant of the scan that also collects the contracts whose window ends
\* after the block's height.
RECURSIVE scanFileContracts_upcoming(_, _, _, _)
scanFileContracts_upcoming(s, order, k, r) ==
    IF k > Len(order) \/ r.panic # NoPanic THEN r
    ELSE
      LET id == order[k]
          fc == s.cs.fileContracts[id]
          expired == IF fc.WindowEnd >= s.bn.height
                     THEN Append(r.expired, id) ELSE r.expired
      IN  IF DEBUG /\ fc.WindowEnd < s.bn.height
          THEN [expired |-> expired, panic |-> panicContractMissed]
          ELSE scanFileContracts_upcoming(s, order, k + 1,
                                 [expired |-> expired, panic |-> NoPanic])

\* The scan of cs.fileContracts in the order `order`: the identifiers of the
\* contracts whose window ends at the block's height, in scan order, or the
\* panic of the sanity check.  r = [expired, panic].
RECURSIVE scanFileContracts(_, _, _, _)
scanFileContracts(s, order, k, r) ==
    IF k > Len(order) \/ r.panic # NoPanic THEN r
    ELSE
      LET id == order[k]
          fc == s.cs.fileContracts[id]
          expired == IF fc.WindowEnd = s.bn.height
                     THEN Append(r.expired, id) ELSE r.expired
      IN  IF DEBUG /\ fc.WindowEnd < s.bn.height
          THEN [expired |-> expired, panic |-> panicContractMissed]
          ELSE scanFileContracts(s, order, k + 1,
                                 [expired |-> expired, panic |-> NoPanic])

\* The loop over expiredFileContracts.
RECURSIVE applyExpiredFrom(_, _, _)
applyExpiredFrom(s, expired, k) ==
    IF k > Len(expired) \/ s.panic # NoPanic THEN s
    ELSE applyExpiredFrom(applyMissedStorageProof(s, expired[k]), expired, k + 1)

applyFileContractMaintenance(s, order) ==
    LET r == scanFileContracts(s, order, 1, [expired |-> <<>>, panic |-> NoPanic])
    IN  IF r.panic # NoPanic THEN [s EXCEPT !.panic = r.panic]
        ELSE applyExpiredFrom(s, r.expired, 1)

\* --------------------------------------------------------- applyMaintenance
\* Variant of the phase order that matures outputs before it pays the miner.
maintenancePhases_swapped ==
    << "applyMaturedSiacoinOutputs", "applyMinerPayouts",
       "applyFileContractMaintenance" >>

\* The phases of applyMaintenance in the order it calls them.
maintenancePhases ==
    << "applyMinerPayouts", "applyMaturedSiacoinOutputs",
       "applyFileContractMaintenance" >>

\* One phase, given the enumeration orders the two range loops over maps take.
runPhase(phase, s, bucketOrder, contractOrder) ==
    CASE phase = "applyMinerPayouts" -> applyMinerPayouts(s)
      [] phase = "applyMaturedSiacoinOutputs" ->
             applyMaturedSiacoinOutputs(s, bucketOrder)
      [] phase = "applyFileContractMaintenance" ->
             applyFileContractMaintenance(s, contractOrder)

\* The position after phase number n: the next phase, or done.
AfterPhase(n) ==
    IF n < Len(maintenancePhases) THEN maintenancePhases[n + 1] ELSE "done"

PhaseNumber(phase) ==
    CHOOSE n \in 1..Len(maintenancePhases) : maintenancePhases[n] = phase

\* The whole pass as one function of the state at its start and of the two
\* enumeration orders: the phases one after the other, ended by a panic.
RECURSIVE runPhasesFrom(_, _, _, _)
runPhasesFrom(n, s, bucketOrder, contractOrder) ==
    IF n > Len(maintenancePhases) \/ s.panic # NoPanic THEN s
    ELSE runPhasesFrom(n + 1,
                       runPhase(maintenancePhases[n], s, bucketOrder, contractOrder),
                       bucketOrder, contractOrder)

applyMaintenance(s, bucketOrder, contractOrder) ==
    runPhasesFrom(1, s, bucketOrder, contractOrder)

\* ------------------------------------------------------------ rewinding
\* The inverses of a block node's diffs in reverse order: each log is walked
\* from its last entry to its first and every diff committed with DiffRevert.
RECURSIVE revertSiacoinOutputDiffs(_, _, _)
revertSiacoinOutputDiffs(c, diffs, k) ==
    IF k = 0 THEN c
    ELSE revertSiacoinOutputDiffs(
             commitSiacoinOutputDiff(c, diffs[k], DiffRevert), diffs, k - 1)

RECURSIVE revertDelayedSiacoinOutputDiffs(_, _, _)
revertDelayedSiacoinOutputDiffs(c, diffs, k) ==
    IF k = 0 THEN c
    ELSE revertDelayedSiacoinOutputDiffs(
             commitDelayedSiacoinOutputDiff(c, diffs[k], DiffRevert), diffs, k - 1)

RECURSIVE revertFileContractDiffs(_, _, _)
revertFileContractDiffs(c, diffs, k) ==
    IF k = 0 THEN c
    ELSE revertFileContractDiffs(
             commitFileContractDiff(c, diffs[k], DiffRevert), diffs, k - 1)

revertDiffs(c, b) ==
    LET c1 == revertFileContractDiffs(c, b.fileContractDiffs,
                                      Len(b.fileContractDiffs))
        c2 == revertDelayedSiacoinOutputDiffs(c1, b.delayedSiacoinOutputDiffs,
                                              Len(b.delayedSiacoinOutputDiffs))
    IN  revertSiacoinOutputDiffs(c2, b.siacoinOutputDiffs,
                                 Len(b.siacoinOutputDiffs))

\* ------------------------------------------------------------ the ledger
\* Every identifier held by the siacoin output set or by a delayed bucket.
DelayedIDs(c) ==
    UNION { DOMAIN c.delayedSiacoinOutputs[h] : h \in DOMAIN c.delayedSiacoinOutputs }

UsedIDs(c) == DOMAIN c.siacoinOutputs \cup DelayedIDs(c)

\* The output diffs in the logs of block node b, each with the log it is in
\* and the height of the block: what a walk over the block nodes of the
\* current path finds, the order within a log left out.
OutputDiffs(b) ==
    { [log |-> "siacoinOutputDiffs", height |-> b.height,
       Direction |-> b.siacoinOutputDiffs[k].Direction,
       ID |-> b.siacoinOutputDiffs[k].ID] :
         k \in 1..Len(b.siacoinOutputDiffs) }
    \cup
    { [log |-> "delayedSiacoinOutputDiffs", height |-> b.height,
       Direction |-> b.delayedSiacoinOutputDiffs[k].Direction,
       ID |-> b.delayedSiacoinOutputDiffs[k].ID] :
         k \in 1..Len(b.delayedSiacoinOutputDiffs) }

\* A block node of height h with the miner payouts and no diffs yet.
newBlockNode(h, payouts) ==
    [height |-> h, MinerPayouts |-> payouts,
     siacoinOutputDiffs |-> <<>>, delayedSiacoinOutputDiffs |-> <<>>,
     fileContractDiffs |-> <<>>]

\* The file contract identifiers of the model.
FileContractIDs == {1, 2}

FileContracts(lo) ==
    [WindowEnd : lo..MaxHeight,
     MissedProofOutputs : MissedProofOutputLists]

\* ------------------------------------------------------------------ Init
\* A new consensus set: empty maps and no block yet.  The first block node
\* has height 0: applyMaintenance takes the height from the block node and
\* sets no lower limit on it.
Init ==
    /\ cs = [siacoinOutputs |-> EmptyMap, delayedSiacoinOutputs |-> EmptyMap,
             fileContracts |-> EmptyMap]
    /\ bn = newBlockNode(0, <<>>)
    /\ pc = "idle"
    /\ panic = NoPanic
    /\ pre = cs
    /\ mid = [cs |-> cs, bn |-> bn, phase |-> "none"]
    /\ currentPath = <<>>
    /\ pathDiffs = {}
    /\ DEBUG \in BOOLEAN

\* ---------------------------------------------------------------- actions
\* A transaction of the next block forms a file contract.  Its window ends
\* after the last block that was maintained, and the identifiers of its
\* missed proof outputs are new.
AddFileContract ==
    /\ pc = "idle"
    /\ blockHeight <= MaxHeight
    /\ \E fcid \in FileContractIDs \ DOMAIN cs.fileContracts :
       \E fc \in FileContracts(blockHeight) :
         /\ \A i \in 1..Len(fc.MissedProofOutputs) :
                StorageProofOutputID(fcid, ProofMissed, i - 1) \notin UsedIDs(cs)
         /\ cs' = [cs EXCEPT !.fileContracts = MapPut(@, fcid, fc)]
    /\ pre' = cs'
    /\ mid' = [cs |-> cs', bn |-> bn, phase |-> "none"]
    /\ UNCHANGED <<bn, pc, panic, currentPath, pathDiffs, DEBUG>>

\* The next block is accepted: its transactions have been applied and
\* applyMaintenance is called on its block node.
AcceptBlock ==
    /\ pc = "idle"
    /\ blockHeight <= MaxHeight
    /\ \E payouts \in MinerPayoutLists :
         bn' = newBlockNode(blockHeight, payouts)
    /\ pre' = cs
    /\ mid' = [cs |-> cs, bn |-> bn', phase |-> "none"]
    /\ pc' = maintenancePhases[1]
    /\ UNCHANGED <<cs, panic, currentPath, pathDiffs, DEBUG>>

\* The effect of one phase on the variables: the phase ran to its end and the
\* next one follows, or it panicked and the pass stops where it was.
PhaseStep(phase, bucketOrder, contractOrder) ==
    LET s == [cs |-> cs, bn |-> bn, panic |-> NoPanic]
        t == runPhase(phase, s, bucketOrder, contractOrder)
    IN  /\ cs' = t.cs
        /\ bn' = t.bn
        /\ panic' = t.panic
        /\ mid' = [cs |-> cs, bn |-> bn, phase |-> phase]
        /\ pc' = IF t.panic # NoPanic THEN "aborted"
                 ELSE AfterPhase(PhaseNumber(phase))
        /\ UNCHANGED <<pre, currentPath, pathDiffs, DEBUG>>

ApplyMinerPayouts ==
    /\ pc = "applyMinerPayouts"
    /\ PhaseStep("applyMinerPayouts", <<>>, <<>>)

ApplyMaturedSiacoinOutputs ==
    /\ pc = "applyMaturedSiacoinOutputs"
    /\ \E order \in Enumerations(DOMAIN Bucket(cs.delayedSiacoinOutputs, bn.height)) :
         PhaseStep("applyMaturedSiacoinOutputs", order, <<>>)

ApplyFileContractMaintenance ==
    /\ pc = "applyFileContractMaintenance"
    /\ \E order \in Enumerations(DOMAIN cs.fileContracts) :
         PhaseStep("applyFileContractMaintenance", <<>>, order)

\* The block stays on the current path.
FinishBlock ==
    /\ pc = "done"
    /\ pc' = "idle"
    /\ currentPath' = Append(currentPath, bn.MinerPayouts)
    /\ pathDiffs' = pathDiffs \cup OutputDiffs(bn)
    /\ bn' = newBlockNode(0, <<>>)
    /\ pre' = cs
    /\ mid' = [cs |-> cs, bn |-> bn', phase |-> "none"]
    /\ UNCHANGED <<cs, panic, DEBUG>>

\* The block is rewound: the inverses of its diffs are applied in reverse
\* order.  The model follows a rewind no further.
RevertBlock ==
    /\ pc = "done"
    /\ cs' = revertDiffs(cs, bn)
    /\ pc' = "reverted"
    /\ UNCHANGED <<bn, panic, pre, mid, currentPath, pathDiffs, DEBUG>>

Next ==
    \/ AddFileContract
    \/ AcceptBlock
    \/ ApplyMinerPayouts
    \/ ApplyMaturedSiacoinOutputs
    \/ ApplyFileContractMaintenance
    \/ FinishBlock
    \/ RevertBlock

Spec == Init /\ [][Next]_vars

\* ----------------------------------------------------- a corrupted ledger
\* The sanity checks of maintenance.go guard against a ledger that the rest
\* of the consensus code has corrupted: identifiers that collide, a block
\* that is processed twice, a contract that outlived its window.  The
\* actions below bring such ledgers about; the passes are the same.

\* The ledger c shows a corruption at height h: an identifier that is in two
\* of its maps or buckets, a contract whose window has ended, or a contract
\* whose missed proof outputs would take identifiers that are in use.
Corrupted(c, h) ==
    \/ DOMAIN c.siacoinOutputs \cap DelayedIDs(c) # {}
    \/ \E a, b \in DOMAIN c.delayedSiacoinOutputs :
         a # b /\ DOMAIN c.delayedSiacoinOutputs[a]
                    \cap DOMAIN c.delayedSiacoinOutputs[b] # {}
    \/ \E id \in DOMAIN c.siacoinOutputs :
         id = MinerPayoutID([height |-> h], 0)
    \/ \E fcid \in DOMAIN c.fileContracts :
         \/ c.fileContracts[fcid].WindowEnd < h
         \/ \E i \in 1..Len(c.fileContracts[fcid].MissedProofOutputs) :
              StorageProofOutputID(fcid, ProofMissed, i - 1) \in UsedIDs(c)

\* The siacoin output a transaction creates under a colliding identifier.
CollidingOutput == [Value |-> 7, UnlockHash |-> "C"]

\* A transaction of the next block creates a siacoin output whose identifier
\* collides with a delayed output or with the first payout of the next block.
\* It happens to a ledger that shows no corruption yet.
AddCollidingSiacoinOutput ==
    /\ pc = "idle"
    /\ blockHeight <= MaxHeight
    /\ ~Corrupted(cs, blockHeight)
    /\ \E id \in (DelayedIDs(cs) \cup {MinerPayoutID([height |-> blockHeight], 0)})
                  \ DOMAIN cs.siacoinOutputs :
         cs' = [cs EXCEPT !.siacoinOutputs = MapPut(@, id, CollidingOutput)]
    /\ pre' = cs'
    /\ mid' = [cs |-> cs', bn |-> bn, phase |-> "none"]
    /\ UNCHANGED <<bn, pc, panic, currentPath, pathDiffs, DEBUG>>

\* The contract identifiers that a corrupted ledger hands out again.
ReusedContractIDs == {1}

\* A file contract with missed proof outputs enters the contract set
\* unvalidated: its identifier may have been used before and its window may
\* have ended already.  It happens to a ledger that shows no corruption yet.
AddUncheckedFileContract ==
    /\ pc = "idle"
    /\ ~Corrupted(cs, blockHeight)
    /\ blockHeight <= MaxHeight
    /\ \E fcid \in ReusedContractIDs \ DOMAIN cs.fileContracts :
       \E fc \in FileContracts(0) :
         /\ fc.MissedProofOutputs # <<>>
         /\ cs' = [cs EXCEPT !.fileContracts = MapPut(@, fcid, fc)]
    /\ pre' = cs'
    /\ mid' = [cs |-> cs', bn |-> bn, phase |-> "none"]
    /\ UNCHANGED <<bn, pc, panic, currentPath, pathDiffs, DEBUG>>

\* The block that was just applied is processed a second time.
ReapplyBlock ==
    /\ pc = "done"
    /\ bn' = newBlockNode(bn.height, bn.MinerPayouts)
    /\ pre' = cs
    /\ mid' = [cs |-> cs, bn |-> bn', phase |-> "none"]
    /\ pc' = maintenancePhases[1]
    /\ UNCHANGED <<cs, panic, currentPath, pathDiffs, DEBUG>>

NextCorrupted ==
    \/ AcceptBlock
    \/ ApplyMinerPayouts
    \/ ApplyMaturedSiacoinOutputs
    \/ ApplyFileContractMaintenance
    \/ FinishBlock
    \/ AddCollidingSiacoinOutput
    \/ AddUncheckedFileContract
    \/ ReapplyBlock

SpecCorrupted == Init /\ [][NextCorrupted]_vars

\* ====================================================== checked properties
\* The height of the block node in hand and the bucket its payouts go to.
H == bn.height
payoutHeight == bn.height + MaturityDelay

\* The phase that ran last completed without a panic.
PhaseDone(phase) == mid.phase = phase /\ panic = NoPanic

\* C1: after every maintenance pass no identifier is both in the siacoin
\* output set and in a delayed bucket of any height.
Disjointness ==
    pc \in {"done", "idle"} => DOMAIN cs.siacoinOutputs \cap DelayedIDs(cs) = {}

\* A pass has matured outputs while other outputs are still delayed.
DisjointnessWitness ==
    /\ pc = "done"
    /\ bn.siacoinOutputDiffs # <<>>
    /\ DelayedIDs(cs) # {}

\* The ledger with its empty delayed buckets left out.
DropEmptyBuckets(c) ==
    [c EXCEPT !.delayedSiacoinOutputs =
        [h \in { x \in DOMAIN @ : DOMAIN @[x] # {} } |-> @[h]]]

BucketDrained ==
    /\ DOMAIN Bucket(cs.delayedSiacoinOutputs, H) = {}
    /\ \A id \in DOMAIN Bucket(mid.cs.delayedSiacoinOutputs, H) :
           /\ id \in DOMAIN cs.siacoinOutputs
           /\ cs.siacoinOutputs[id] = mid.cs.delayedSiacoinOutputs[H][id]

MinerPayoutDiff(i) ==
    [Direction |-> DiffApply, ID |-> MinerPayoutID(bn, i - 1),
     SiacoinOutput |-> bn.MinerPayouts[i], MaturityHeight |-> payoutHeight]

\* C4: applyMinerPayouts puts every payout of the block, once, in the bucket
\* at height + MaturityDelay with the payout's value and unlock hash, appends
\* one Apply diff per payout in list order, and leaves the siacoin outputs.
MinerPayoutsApplied ==
    PhaseDone("applyMinerPayouts") =>
      LET n == Len(bn.MinerPayouts)
          ids == { MinerPayoutID(bn, i - 1) : i \in 1..n }
          before == Bucket(mid.cs.delayedSiacoinOutputs, payoutHeight)
          after == Bucket(cs.delayedSiacoinOutputs, payoutHeight)
      IN  /\ \A i \in 1..n :
                /\ MinerPayoutID(bn, i - 1) \in DOMAIN after
                /\ after[MinerPayoutID(bn, i - 1)] = bn.MinerPayouts[i]
                /\ MinerPayoutID(bn, i - 1) \notin DOMAIN cs.siacoinOutputs
                /\ \A h \in DOMAIN cs.delayedSiacoinOutputs :
                       MinerPayoutID(bn, i - 1) \in DOMAIN cs.delayedSiacoinOutputs[h]
                           => h = payoutHeight
          /\ Cardinality(ids) = n
          /\ DOMAIN after = DOMAIN before \cup ids
          /\ Cardinality(DOMAIN after) = Cardinality(DOMAIN before) + n
          /\ \A id \in DOMAIN before : after[id] = before[id]
          /\ \A h \in DOMAIN mid.cs.delayedSiacoinOutputs \ {payoutHeight} :
                 /\ h \in DOMAIN cs.delayedSiacoinOutputs
                 /\ cs.delayedSiacoinOutputs[h] = mid.cs.delayedSiacoinOutputs[h]
          /\ DOMAIN cs.delayedSiacoinOutputs \subseteq
                 DOMAIN mid.cs.delayedSiacoinOutputs \cup {payoutHeight}
          /\ bn.delayedSiacoinOutputDiffs =
                 mid.bn.delayedSiacoinOutputDiffs \o [i \in 1..n |-> MinerPayoutDiff(i)]
          /\ bn.siacoinOutputDiffs = mid.bn.siacoinOutputDiffs
          /\ cs.siacoinOutputs = mid.cs.siacoinOutputs

\* applyMinerPayouts has run for a block with payouts on a ledger that holds
\* other delayed outputs.
MinerPayoutsWitness ==
    /\ PhaseDone("applyMinerPayouts")
    /\ bn.MinerPayouts # <<>>
    /\ DelayedIDs(mid.cs) # {}

\* The contracts of the ledger c whose window ends at height h.
ExpiringAt(c, h) ==
    { fcid \in DOMAIN c.fileContracts : c.fileContracts[fcid].WindowEnd = h }

\* C5: a contract that is in the contract set with WindowEnd = H when the
\* pass at H starts is gone after the pass, and each of its missed proof
\* outputs is in the bucket at H + MaturityDelay under the identifier derived
\* from the contract, the missed tag and the output's index, with its value.
MissedProofApplied ==
    pc = "done" =>
      \A fcid \in ExpiringAt(pre, H) :
        /\ fcid \notin DOMAIN cs.fileContracts
        /\ \A i \in 1..Len(pre.fileContracts[fcid].MissedProofOutputs) :
             LET spoid == StorageProofOutputID(fcid, ProofMissed, i - 1)
             IN  /\ payoutHeight \in DOMAIN cs.delayedSiacoinOutputs
                 /\ spoid \in DOMAIN cs.delayedSiacoinOutputs[payoutHeight]
                 /\ cs.delayedSiacoinOutputs[payoutHeight][spoid] =
                        pre.fileContracts[fcid].MissedProofOutputs[i]
                 /\ spoid \notin DOMAIN cs.siacoinOutputs

\* A pass has ended in which a contract with a missed proof output expired.
MissedProofWitness ==
    /\ pc = "done"
    /\ \E fcid \in ExpiringAt(pre, H) :
           pre.fileContracts[fcid].MissedProofOutputs # <<>>

\* The blocks of the path up to and including the block node in hand.
pathWithBlock == Append(currentPath, bn.MinerPayouts)

\* The payout with index i (from 0) of the block created at height hc is
\* where the lifecycle puts it after the pass at height h.
PayoutInPlace(hc, i, h) ==
    LET id == MinerPayoutID([height |-> hc], i)
        mh == hc + MaturityDelay
    IN  IF h < mh
        THEN /\ id \notin DOMAIN cs.siacoinOutputs
             /\ id \in DOMAIN Bucket(cs.delayedSiacoinOutputs, mh)
        ELSE /\ id \in DOMAIN cs.siacoinOutputs
             /\ h = mh => mh \notin DOMAIN cs.delayedSiacoinOutputs

chainHeight == IF pc \in {"idle", "reverted"} THEN blockHeight - 1 ELSE H

\* C7: no contract of the contract set has a window that ended before the
\* chain height; after the pass at H none has WindowEnd <= H, and the scan's
\* check for a missed expiring contract does not fire.
ContractDeadline ==
    /\ \A fcid \in DOMAIN cs.fileContracts :
         /\ cs.fileContracts[fcid].WindowEnd >= chainHeight
         /\ pc \in {"done", "idle"} => cs.fileContracts[fcid].WindowEnd > chainHeight
    /\ panic # panicContractMissed

\* A pass has removed an expiring contract and left a later one in the set.
ContractDeadlineWitness ==
    /\ pc = "done"
    /\ bn.fileContractDiffs # <<>>
    /\ DOMAIN cs.fileContracts # {}

\* The state in which the pass of the block node in hand started.
passStart ==
    [cs |-> pre, bn |-> newBlockNode(H, bn.MinerPayouts), panic |-> NoPanic]

\* C8 as claimed: every run of applyMaintenance on the block from the ledger
\* of before the pass, whatever order it enumerates the bucket at H and the
\* contract set in, records the diff logs this run recorded.
DeterministicDiffLogs ==
    pc = "done" =>
      \A bucketOrder \in Enumerations(DOMAIN Bucket(pre.delayedSiacoinOutputs, H)) :
      \A contractOrder \in Enumerations(DOMAIN pre.fileContracts) :
          applyMaintenance(passStart, bucketOrder, contractOrder).bn = bn

\* C9: at a height that is not above MaturityDelay applyMaturedSiacoinOutputs
\* changes neither the ledger nor the diff logs and does not panic.
LowHeightNoOp ==
    mid.phase = "applyMaturedSiacoinOutputs" /\ ~(H > MaturityDelay) =>
      /\ cs = mid.cs
      /\ bn = mid.bn
      /\ panic = NoPanic
      /\ pc = "applyFileContractMaintenance"

\* The maturation step has been skipped with entries in the bucket at H.
LowHeightWitness ==
    /\ mid.phase = "applyMaturedSiacoinOutputs"
    /\ ~(H > MaturityDelay)
    /\ DOMAIN Bucket(mid.cs.delayedSiacoinOutputs, H) # {}

\* The phase a delayed output diff of a block's log comes from.
DiffPhase(d) ==
    IF d.Direction = DiffRevert THEN 2
    ELSE IF d.ID[1] = ProofMissed THEN 3 ELSE 1

\* Number of missed proof outputs of the contracts in the set S of ledger c.
RECURSIVE MissedOutputCount(_, _)
MissedOutputCount(c, S) ==
    IF S = {} THEN 0
    ELSE LET fcid == CHOOSE x \in S : TRUE
         IN  Len(c.fileContracts[fcid].MissedProofOutputs)
               + MissedOutputCount(c, S \ {fcid})

\* C10: a pass runs the three phases once each in the order miner payouts,
\* maturation, contract expiry: in the delayed output diff log the payouts'
\* Apply diffs come first, one per payout, then the Revert diffs of
\* maturation, one per matured output, then the Apply diffs of missed proof
\* outputs, one per output of an expiring contract.
PhaseOrder ==
    pc = "done" =>
      LET log == bn.delayedSiacoinOutputDiffs
          count(p) == Cardinality({ k \in 1..Len(log) : DiffPhase(log[k]) = p })
      IN  /\ \A j, k \in 1..Len(log) : j < k => DiffPhase(log[j]) <= DiffPhase(log[k])
          /\ count(1) = Len(bn.MinerPayouts)
          /\ count(2) = IF H > MaturityDelay
                        THEN Cardinality(DOMAIN Bucket(pre.delayedSiacoinOutputs, H))
                        ELSE 0
          /\ count(2) = Len(bn.siacoinOutputDiffs)
          /\ count(3) = MissedOutputCount(pre, ExpiringAt(pre, H))
          /\ Len(bn.fileContractDiffs) = Cardinality(ExpiringAt(pre, H))

\* A pass has recorded delayed output diffs of all three phases.
PhaseOrderWitness ==
    /\ pc = "done"
    /\ \A p \in 1..3 : \E k \in 1..Len(bn.delayedSiacoinOutputDiffs) :
           DiffPhase(bn.delayedSiacoinOutputDiffs[k]) = p

\* ------------------------------------------------- a corrupted ledger
\* The identifiers in the diff log `log`.
LogIDs(log) == { log[k].ID : k \in 1..Len(log) }

\* The payouts of bn whose identifier was, before applyMinerPayouts, in the
\* delayed bucket at H + MaturityDelay or in the siacoin output set.
PayoutCollisions ==
    { i \in 1..Len(bn.MinerPayouts) :
        MinerPayoutID(bn, i - 1) \in
            DOMAIN Bucket(mid.cs.delayedSiacoinOutputs, payoutHeight)
              \cup DOMAIN mid.cs.siacoinOutputs }

\* The entries of the bucket at H that were siacoin outputs already before
\* applyMaturedSiacoinOutputs.
MatureCollisions ==
    DOMAIN Bucket(mid.cs.delayedSiacoinOutputs, H) \cap DOMAIN mid.cs.siacoinOutputs

\* applyMinerPayouts stopped with errPayoutsAlreadyPaid: no colliding payout
\* has a diff in the log and the entries it collides with are as they were.
PayoutAborted ==
    /\ pc = "aborted"
    /\ panic = errPayoutsAlreadyPaid
    /\ cs.siacoinOutputs = mid.cs.siacoinOutputs
    /\ \A i \in PayoutCollisions :
         LET mpid == MinerPayoutID(bn, i - 1)
             before == Bucket(mid.cs.delayedSiacoinOutputs, payoutHeight)
             after == Bucket(cs.delayedSiacoinOutputs, payoutHeight)
         IN  /\ mpid \notin LogIDs(bn.delayedSiacoinOutputDiffs)
             /\ mpid \in DOMAIN after <=> mpid \in DOMAIN before
             /\ mpid \in DOMAIN before => after[mpid] = before[mpid]

\* applyMaturedSiacoinOutputs stopped with errOutputAlreadyMature: no entry
\* that was mature already has a diff in the logs, each is still in the
\* bucket at H, and the siacoin output of its identifier is as it was.
MaturedAborted ==
    /\ pc = "aborted"
    /\ panic = errOutputAlreadyMature
    /\ \A id \in MatureCollisions :
         /\ id \notin LogIDs(bn.siacoinOutputDiffs)
         /\ id \in DOMAIN Bucket(cs.delayedSiacoinOutputs, H)
         /\ cs.siacoinOutputs[id] = mid.cs.siacoinOutputs[id]

\* C11 as claimed: a miner payout whose identifier is in the delayed bucket
\* at H + MaturityDelay or in the siacoin output set already makes
\* applyMinerPayouts stop with errPayoutsAlreadyPaid, and an entry of the
\* bucket at H that is a siacoin output already makes
\* applyMaturedSiacoinOutputs stop with errOutputAlreadyMature; neither is
\* recorded, committed or written over.
FatalOnDuplicate ==
    /\ mid.phase = "applyMinerPayouts" /\ PayoutCollisions # {} => PayoutAborted
    /\ mid.phase = "applyMaturedSiacoinOutputs" /\ MatureCollisions # {}
         => MaturedAborted

\* C11: in a build with build.DEBUG set, a miner payout whose identifier is
\* in the delayed bucket at H + MaturityDelay or in the siacoin output set
\* already makes applyMinerPayouts stop with errPayoutsAlreadyPaid, and at a
\* height above MaturityDelay an entry of the bucket at H that is a siacoin
\* output already makes applyMaturedSiacoinOutputs stop with
\* errOutputAlreadyMature; neither is recorded, committed or written over.
FatalOnDuplicateDebug ==
    DEBUG =>
      /\ mid.phase = "applyMinerPayouts" /\ PayoutCollisions # {} => PayoutAborted
      /\ mid.phase = "applyMaturedSiacoinOutputs" /\ H > MaturityDelay
           /\ MatureCollisions # {} => MaturedAborted

\* A debug build has stopped maturation at an entry that was mature already,
\* after the payouts of the block were applied.
FatalOnDuplicateWitness ==
    /\ DEBUG
    /\ mid.phase = "applyMaturedSiacoinOutputs"
    /\ panic = errOutputAlreadyMature
    /\ bn.delayedSiacoinOutputDiffs # <<>>

\* The missed proof outputs, as pairs of contract and index (from 1), of the
\* contracts expiring at H whose identifier was, before the contract phase,
\* a siacoin output or in a delayed bucket of any height.
MissedProofCollisions ==
    UNION { { <<fcid, i>> :
                i \in { j \in 1..Len(mid.cs.fileContracts[fcid].MissedProofOutputs) :
                         StorageProofOutputID(fcid, ProofMissed, j - 1)
                           \in UsedIDs(mid.cs) } } :
            fcid \in ExpiringAt(mid.cs, H) }

\* No contract of the ledger c has a window that ended before height h.
NoStaleContract(c, h) ==
    \A fcid \in DOMAIN c.fileContracts : c.fileContracts[fcid].WindowEnd >= h

\* C12 as claimed, for a build with build.DEBUG set and a scan that finds no
\* stale contract: if the identifier of a missed proof output of an expiring
\* contract is a siacoin output or in a delayed bucket of any height, the
\* contract phase stops with errPayoutsAlreadyPaid and records no delayed
\* output diff under that identifier.
CollisionCheckEveryBucket ==
    /\ DEBUG
    /\ mid.phase = "applyFileContractMaintenance"
    /\ NoStaleContract(mid.cs, H)
    /\ MissedProofCollisions # {}
    => /\ pc = "aborted"
       /\ panic = errPayoutsAlreadyPaid
       /\ \A p \in MissedProofCollisions :
            \A k \in Len(mid.bn.delayedSiacoinOutputDiffs) + 1
                        .. Len(bn.delayedSiacoinOutputDiffs) :
               bn.delayedSiacoinOutputDiffs[k].ID
                 # StorageProofOutputID(p[1], ProofMissed, p[2] - 1)

\* The pass has run its three phases to their end.
PassCompleted ==
    /\ panic = NoPanic
    /\ mid.phase = maintenancePhases[Len(maintenancePhases)]
    /\ \A i \in 1..Len(bn.MinerPayouts) :
         MinerPayoutID(bn, i - 1) \in LogIDs(bn.delayedSiacoinOutputDiffs)
    /\ H > MaturityDelay => H \notin DOMAIN cs.delayedSiacoinOutputs
    /\ NoStaleContract(pre, H) => ExpiringAt(cs, H) = {}

Appended(before, after) == SubSeq(after, Len(before) + 1, Len(after))

\* The positions of the diffs of identifier id in the log `log`.
Positions(log, id) == { k \in 1..Len(log) : log[k].ID = id }

\* C14: at a height above MaturityDelay applyMaturedSiacoinOutputs appends,
\* for each entry of the bucket at H, exactly one Apply siacoin output diff
\* and exactly one Revert delayed output diff with the entry's identifier
\* and output and with MaturityHeight = H, and applies both; it appends as
\* many diffs to either log as the bucket held entries.
MaturationPairing ==
    PhaseDone("applyMaturedSiacoinOutputs") /\ H > MaturityDelay =>
      LET bucket == Bucket(mid.cs.delayedSiacoinOutputs, H)
          scods == Appended(mid.bn.siacoinOutputDiffs, bn.siacoinOutputDiffs)
          dscods == Appended(mid.bn.delayedSiacoinOutputDiffs,
                             bn.delayedSiacoinOutputDiffs)
      IN  /\ Len(scods) = Cardinality(DOMAIN bucket)
          /\ Len(dscods) = Cardinality(DOMAIN bucket)
          /\ \A id \in DOMAIN bucket :
               /\ Cardinality(Positions(scods, id)) = 1
               /\ Cardinality(Positions(dscods, id)) = 1
               /\ \A k \in Positions(scods, id) :
                    scods[k] = [Direction |-> DiffApply, ID |-> id,
                                SiacoinOutput |-> bucket[id]]
               /\ \A k \in Positions(dscods, id) :
                    dscods[k] = [Direction |-> DiffRevert, ID |-> id,
                                 SiacoinOutput |-> bucket[id],
                                 MaturityHeight |-> H]
               /\ id \in DOMAIN cs.siacoinOutputs
               /\ cs.siacoinOutputs[id] = bucket[id]
               /\ id \notin DOMAIN Bucket(cs.delayedSiacoinOutputs, H)

\* Maturation has moved a bucket of two entries or more, after the payouts
\* of the block wrote to the delayed output diff log.
MaturationPairingWitness ==
    /\ PhaseDone("applyMaturedSiacoinOutputs")
    /\ H > MaturityDelay
    /\ Cardinality(DOMAIN Bucket(mid.cs.delayedSiacoinOutputs, H)) >= 2
    /\ mid.bn.delayedSiacoinOutputDiffs # <<>>

\* The identifiers of the missed proof outputs of contract fcid of ledger c.
MissedProofOutputIDs(c, fcid) ==
    { StorageProofOutputID(fcid, ProofMissed, i - 1) :
        i \in 1..Len(c.fileContracts[fcid].MissedProofOutputs) }

\* C15: applyFileContractMaintenance handles each contract whose WindowEnd
\* is H when the scan starts once, and no other: the file contract diff log
\* gains one Revert diff per such contract, carrying the contract removed,
\* the delayed output diff log gains one Apply diff per missed proof output
\* of such a contract, the contracts follow each other in the same order in
\* both logs, and every contract with another WindowEnd stays as it was.
ExpiryScan ==
    pc = "done" /\ PhaseDone("applyFileContractMaintenance") =>
      LET expiring == ExpiringAt(mid.cs, H)
          fcds == Appended(mid.bn.fileContractDiffs, bn.fileContractDiffs)
          dscods == Appended(mid.bn.delayedSiacoinOutputDiffs,
                             bn.delayedSiacoinOutputDiffs)
      IN  /\ Len(fcds) = Cardinality(expiring)
          /\ Len(dscods) = MissedOutputCount(mid.cs, expiring)
          /\ \A fcid \in expiring :
               /\ Cardinality(Positions(fcds, fcid)) = 1
               /\ \A k \in Positions(fcds, fcid) :
                    fcds[k] = [Direction |-> DiffRevert, ID |-> fcid,
                               FileContract |-> mid.cs.fileContracts[fcid]]
               /\ \A id \in MissedProofOutputIDs(mid.cs, fcid) :
                    /\ Cardinality(Positions(dscods, id)) = 1
                    /\ \A k \in Positions(dscods, id) :
                         dscods[k].Direction = DiffApply
          /\ \A j, k \in 1..Len(fcds) :
               j < k =>
                 \A a \in MissedProofOutputIDs(mid.cs, fcds[j].ID) :
                 \A b \in MissedProofOutputIDs(mid.cs, fcds[k].ID) :
                   \A x \in Positions(dscods, a) : \A y \in Positions(dscods, b) :
                      x < y
          /\ DOMAIN cs.fileContracts = DOMAIN mid.cs.fileContracts \ expiring
          /\ \A fcid \in DOMAIN cs.fileContracts :
               cs.fileContracts[fcid] = mid.cs.fileContracts[fcid]

\* The scan has handled two contracts with missed proof outputs.
ExpiryScanWitness ==
    /\ pc = "done"
    /\ PhaseDone("applyFileContractMaintenance")
    /\ Cardinality(ExpiringAt(mid.cs, H)) = 2
    /\ \A fcid \in ExpiringAt(mid.cs, H) : MissedProofOutputIDs(mid.cs, fcid) # {}

\* The scan has handled one contract and left another.
ExpiryScanOther ==
    /\ pc = "done"
    /\ PhaseDone("applyFileContractMaintenance")
    /\ ExpiringAt(mid.cs, H) # {}
    /\ DOMAIN cs.fileContracts # {}

\* ------------------------------------------------- the diffs of all blocks
\* The output diffs in the logs of the blocks of the current path and of the
\* block being applied.
AllOutputDiffs == pathDiffs \cup OutputDiffs(bn)

\* The diffs of the set D that are in the log `log` with direction dir.
DiffsOf(D, log, dir) == { d \in D : d.log = log /\ d.Direction = dir }

\* The identifiers of the diffs of the set D.
IDsOf(D) == { d.ID : d \in D }

\* The positions in the log `log` of the diffs of identifier id and direction dir.
PositionsOf(log, dir, id) ==
    { k \in Positions(log, id) : log[k].Direction = dir }

\* C16: over the passes of the blocks at consecutive heights a delayed
\* output has at most one Apply delayed output diff, at most one Revert
\* delayed output diff and at most one Apply siacoin output diff in the logs
\* of all blocks together, the latter two in a block above the block of the
\* first; and each diff is committed once: after a pass the siacoin outputs
\* are the outputs with an Apply siacoin output diff, the delayed outputs
\* those with an Apply and without a Revert delayed output diff.
NoDoubleApplication ==
    pc = "done" =>
      LET all == AllOutputDiffs
          applied == DiffsOf(all, "delayedSiacoinOutputDiffs", DiffApply)
          reverted == DiffsOf(all, "delayedSiacoinOutputDiffs", DiffRevert)
          matured == DiffsOf(all, "siacoinOutputDiffs", DiffApply)
      IN  /\ \A d, e \in applied : d.ID = e.ID => d = e
          /\ \A d, e \in reverted : d.ID = e.ID => d = e
          /\ \A d, e \in matured : d.ID = e.ID => d = e
          /\ \A r \in reverted \cup matured :
               \E a \in applied : a.ID = r.ID /\ r.height > a.height
          /\ \A id \in IDsOf(OutputDiffs(bn)) : \A dir \in {DiffApply, DiffRevert} :
               /\ Cardinality(PositionsOf(bn.delayedSiacoinOutputDiffs, dir, id)) <= 1
               /\ Cardinality(PositionsOf(bn.siacoinOutputDiffs, dir, id)) <= 1
          /\ DiffsOf(all, "siacoinOutputDiffs", DiffRevert) = {}
          /\ DOMAIN cs.siacoinOutputs = IDsOf(matured)
          /\ DelayedIDs(cs) = IDsOf(applied) \ IDsOf(reverted)

\* A pass has matured an output that an earlier block of the path delayed,
\* and another output of an earlier block is still delayed.
NoDoubleApplicationWitness ==
    /\ pc = "done"
    /\ \E id \in DOMAIN cs.siacoinOutputs :
         /\ \E d \in pathDiffs : d.ID = id /\ d.Direction = DiffApply
         /\ \E d \in OutputDiffs(bn) : d.ID = id /\ d.Direction = DiffRevert
    /\ \E d \in pathDiffs : d.ID \in DelayedIDs(cs)

\* ---------------------------------------------------- enumeration orders
\* The set of the diffs in the log `log`.
DiffSet(log) == { log[k] : k \in 1..Len(log) }

\* C17: whatever order applyMaintenance enumerates the bucket at H and the
\* contract set in, it ends without a panic, in the ledger this run ended
\* in, and with the same set of diffs in each of the three logs.
OrderIndependent ==
    pc = "done" =>
      \A bucketOrder \in Enumerations(DOMAIN Bucket(pre.delayedSiacoinOutputs, H)) :
      \A contractOrder \in Enumerations(DOMAIN pre.fileContracts) :
        LET t == applyMaintenance(passStart, bucketOrder, contractOrder)
        IN  /\ t.panic = NoPanic
            /\ t.cs = cs
            /\ DiffSet(t.bn.siacoinOutputDiffs) = DiffSet(bn.siacoinOutputDiffs)
            /\ DiffSet(t.bn.delayedSiacoinOutputDiffs)
                 = DiffSet(bn.delayedSiacoinOutputDiffs)
            /\ DiffSet(t.bn.fileContractDiffs) = DiffSet(bn.fileContractDiffs)

\* A pass has matured a bucket of two entries or more and has handled two
\* expiring contracts, so that either enumeration has more than one order.
OrderIndependentWitness ==
    /\ pc = "done"
    /\ H > MaturityDelay
    /\ Cardinality(DOMAIN Bucket(pre.delayedSiacoinOutputs, H)) >= 2
    /\ Cardinality(ExpiringAt(pre, H)) >= 2

\* ------------------------------------------------------- frame of a pass
\* What a pass leaves alone: the delayed buckets at heights other than H and
\* H + MaturityDelay, the siacoin outputs of before the pass, the entries the
\* bucket at H + MaturityDelay held, and the contract set but for removals.
PassFrame ==
    /\ \A h \in (DOMAIN pre.delayedSiacoinOutputs \cup DOMAIN cs.delayedSiacoinOutputs)
                  \ {H, payoutHeight} :
         /\ h \in DOMAIN pre.delayedSiacoinOutputs
         /\ h \in DOMAIN cs.delayedSiacoinOutputs
         /\ cs.delayedSiacoinOutputs[h] = pre.delayedSiacoinOutputs[h]
    /\ \A id \in DOMAIN pre.siacoinOutputs :
         /\ id \in DOMAIN cs.siacoinOutputs
         /\ cs.siacoinOutputs[id] = pre.siacoinOutputs[id]
    /\ \A id \in DOMAIN Bucket(pre.delayedSiacoinOutputs, payoutHeight) :
         /\ id \in DOMAIN Bucket(cs.delayedSiacoinOutputs, payoutHeight)
         /\ cs.delayedSiacoinOutputs[payoutHeight][id]
              = pre.delayedSiacoinOutputs[payoutHeight][id]
    /\ \A fcid \in DOMAIN cs.fileContracts :
         /\ fcid \in DOMAIN pre.fileContracts
         /\ cs.fileContracts[fcid] = pre.fileContracts[fcid]

\* The siacoin output set has grown by the entries of the bucket at H.
GrownByBucket ==
    /\ DOMAIN cs.siacoinOutputs
         = DOMAIN pre.siacoinOutputs \cup DOMAIN Bucket(pre.delayedSiacoinOutputs, H)
    /\ \A id \in DOMAIN Bucket(pre.delayedSiacoinOutputs, H) :
         cs.siacoinOutputs[id] = pre.delayedSiacoinOutputs[H][id]

RECURSIVE MapValue(_)
MapValue(m) ==
    IF DOMAIN m = {} THEN 0
    ELSE LET id == CHOOSE x \in DOMAIN m : TRUE
         IN  m[id].Value + MapValue(MapDelete(m, id))

\* The sum of the values of the outputs of the list outputs, from index i on.
RECURSIVE ListValue(_, _)
ListValue(outputs, i) ==
    IF i > Len(outputs) THEN 0
    ELSE outputs[i].Value + ListValue(outputs, i + 1)

\* The sum of the values in the delayed buckets of c at the heights S.
RECURSIVE BucketsValue(_, _)
BucketsValue(c, S) ==
    IF S = {} THEN 0
    ELSE LET h == CHOOSE x \in S : TRUE
         IN  MapValue(c.delayedSiacoinOutputs[h]) + BucketsValue(c, S \ {h})

\* The value held in the siacoin output set and all delayed buckets of c.
TotalValue(c) ==
    MapValue(c.siacoinOutputs) + BucketsValue(c, DOMAIN c.delayedSiacoinOutputs)

\* The sum of the missed proof outputs of the contracts S of the ledger c.
RECURSIVE MissedValue(_, _)
MissedValue(c, S) ==
    IF S = {} THEN 0
    ELSE LET fcid == CHOOSE x \in S : TRUE
         IN  ListValue(c.fileContracts[fcid].MissedProofOutputs, 1)
               + MissedValue(c, S \ {fcid})

\* C19: the value held in the siacoin output set and all delayed buckets
\* after a pass at H is the value held before it plus the miner payouts of
\* the block plus the missed proof outputs of the contracts with
\* WindowEnd = H; it does not decrease.
ValueConservation ==
    pc = "done" =>
      /\ TotalValue(cs) = TotalValue(pre) + ListValue(bn.MinerPayouts, 1)
                            + MissedValue(pre, ExpiringAt(pre, H))
      /\ TotalValue(cs) >= TotalValue(pre)

\* A pass has matured a bucket, paid the miner and paid the missed proof
\* outputs of a contract.
ValueConservationWitness ==
    /\ pc = "done"
    /\ H > MaturityDelay
    /\ MapValue(Bucket(pre.delayedSiacoinOutputs, H)) > 0
    /\ ListValue(bn.MinerPayouts, 1) > 0
    /\ MissedValue(pre, ExpiringAt(pre, H)) > 0

====
